---------------------------- MODULE Spec2Model ----------------------------
(***************************************************************************)
(* Camera choreography core of demosnap (src/src/client/camera-core.ts):   *)
(* buildCamConfig, buildCamKeys and sampleCamera, and the compositor page   *)
(* that calls them and records the result (CompositorApp).                 *)
(*                                                                         *)
(* Numbers.  The code computes in IEEE doubles; the model computes the     *)
(* same expressions exactly, in fixed point or as reduced fractions:       *)
(*   - times are integers (ms);                                            *)
(*   - event x, y and the config's fractional fields are in thousandths;   *)
(*   - event w, h are in hundredths;                                       *)
(*   - a key's cx, cy are in 1/PosUnit, its zoom in 1/ZoomUnit;            *)
(*   - a sampled pose's cx, cy, zoom are reduced fractions <<num, den>>.   *)
(* An optional field of an event (x?, y?, w?, h?) is <<>> when absent and  *)
(* <<v>> when present.                                                     *)
(***************************************************************************)
EXTENDS Integers, Sequences, FiniteSets, TLC

\* Longest timeline handed to buildCamKeys.
MaxEvents == 3
\* Longest key array handed to sampleCamera directly.
MaxKeys == 2

RECURSIVE Pow2(_)
Pow2(n) == IF n = 0 THEN 1 ELSE 2 * Pow2(n - 1)

\* A key's position is halved once per merge, and a key takes part in at
\* most MaxEvents merges: PosUnit keeps every midpoint an integer.
PosScale == Pow2(MaxEvents)
PosUnit == 1000 * PosScale
\* zoom = base (thousandths) * area factor (1/50000)
BoxUnit == 5 * 10000
ZoomUnit == 1000 * BoxUnit

Abs(n) == IF n < 0 THEN 0 - n ELSE n
Min(a, b) == IF a < b THEN a ELSE b
Max(a, b) == IF a > b THEN a ELSE b

Has(f) == f # <<>>
Val(f) == f[1]

-----------------------------------------------------------------------------
(* buildCamConfig *)

DefaultCAM ==
  [ leadMs |-> 900, clusterMs |-> 600, maxZoom |-> 3200, posLerp |-> 65,
    zoomLerp |-> 70, movementDeadZone |-> 18, exposureCut |-> 1080,
    exposureLerp |-> 60, settleSeconds |-> 8, idleDriftAmp |-> 5000,
    idlePushInZ |-> 10, dedupeDist |-> 22, dedupeZoomDelta |-> 180,
    cutMoveThreshold |-> 60, cutZoomThreshold |-> 280 ]

\* mutant: the aggressive posLerp is mistyped as 2.2
buildCamConfigMistyped(style) ==
  IF style = "aggressive"
    THEN [DefaultCAM EXCEPT !.clusterMs = 160, !.maxZoom = 4100,
                            !.idleDriftAmp = 2200, !.posLerp = 2200,
                            !.zoomLerp = 180]
  ELSE DefaultCAM

buildCamConfig(style) ==
  IF style = "aggressive"
    THEN [DefaultCAM EXCEPT !.clusterMs = 160, !.maxZoom = 4100,
                            !.idleDriftAmp = 2200, !.posLerp = 220,
                            !.zoomLerp = 180]
  ELSE IF style = "cinematic"
    THEN [DefaultCAM EXCEPT !.leadMs = 1400, !.clusterMs = 950,
                            !.maxZoom = 2900, !.posLerp = 45,
                            !.zoomLerp = 50, !.idleDriftAmp = 3200,
                            !.cutMoveThreshold = 90,
                            !.cutZoomThreshold = 340, !.dedupeDist = 18]
  ELSE DefaultCAM

-----------------------------------------------------------------------------
(* buildCamKeys, step 1: load-progress suppression, in input order *)

LOAD_PROGRESS_MIN_GAP == 450

\* lastProgressT is <<>> for -Infinity
RECURSIVE FilterFrom(_, _, _, _)
FilterFrom(timeline, i, lastProgressT, filtered) ==
  IF i > Len(timeline) THEN filtered
  ELSE LET ev == timeline[i] IN
    IF ev.type = "load-progress"
      THEN IF Has(lastProgressT)
                /\ ev.t - Val(lastProgressT) < LOAD_PROGRESS_MIN_GAP
             THEN FilterFrom(timeline, i + 1, lastProgressT, filtered)
             ELSE FilterFrom(timeline, i + 1, <<ev.t>>, Append(filtered, ev))
      ELSE FilterFrom(timeline, i + 1, lastProgressT, Append(filtered, ev))

\* mutant: ev.t - lastProgressT <= LOAD_PROGRESS_MIN_GAP
RECURSIVE FilterFromInclusive(_, _, _, _)
FilterFromInclusive(timeline, i, lastProgressT, filtered) ==
  IF i > Len(timeline) THEN filtered
  ELSE LET ev == timeline[i] IN
    IF ev.type = "load-progress"
      THEN IF Has(lastProgressT)
                /\ ev.t - Val(lastProgressT) <= LOAD_PROGRESS_MIN_GAP
             THEN FilterFromInclusive(timeline, i + 1, lastProgressT, filtered)
             ELSE FilterFromInclusive(timeline, i + 1, <<ev.t>>, Append(filtered, ev))
      ELSE FilterFromInclusive(timeline, i + 1, lastProgressT, Append(filtered, ev))

FilterProgressInclusive(timeline) == FilterFromInclusive(timeline, 1, <<>>, <<>>)

FilterProgress(timeline) == FilterFrom(timeline, 1, <<>>, <<>>)

-----------------------------------------------------------------------------
(* buildCamKeys, steps 2-6: one key per positional event *)

\* the switch of the cinematic style (thousandths)
BaseZoomCinematic(type) ==
  CASE type = "establish"     -> 1150
    [] type = "load-start"    -> 1240
    [] type = "load-progress" -> 1260
    [] type = "load-complete" -> 1320
    [] type = "result-focus"  -> 1480
    [] type = "prefocus"      -> 1320
    [] type = "click"         -> 1500
    [] type = "type"          -> 1450
    [] type = "press"         -> 1550
    [] type = "wait"          -> 1280
    [] type = "broll-focus"   -> 1260
    [] type = "postclick"     -> 1480
    [] OTHER                  -> 1250

\* the switch of the other styles (thousandths)
BaseZoomDefault(type) ==
  CASE type = "establish"     -> 1120
    [] type = "load-start"    -> 1220
    [] type = "load-progress" -> 1250
    [] type = "load-complete" -> 1300
    [] type = "result-focus"  -> 1550
    [] type = "prefocus"      -> 1350
    [] type = "click"         -> 1700
    [] type = "type"          -> 1520
    [] type = "press"         -> 1850
    [] type = "wait"          -> 1400
    [] OTHER                  -> 1250

AggressiveBoost(style, type) ==
  IF style = "aggressive"
    THEN CASE type = "click" -> 550
           [] type = "type"  -> 450
           [] type = "press" -> 650
           [] OTHER          -> 0
    ELSE 0

\* mutant: no responsive zoom for small boxes
BoxFactorNone(ev) == BoxUnit

\* Math.min(2.8, 1 + (0.25 - Math.min(0.25, area)) * 3.8) in 1/BoxUnit,
\* area = w * h in 1/10000; 1 when w or h is absent or 0 (ev.w && ev.h)
BoxFactor(ev) ==
  IF Has(ev.w) /\ Has(ev.h) /\ Val(ev.w) # 0 /\ Val(ev.h) # 0
    THEN LET area == Val(ev.w) * Val(ev.h)
         IN Min(140000, BoxUnit + (2500 - Min(2500, area)) * 19)
    ELSE BoxUnit

\* mutant: the clamp to CAM.maxZoom is left out
ClampZoomNone(z, CAM) == z

\* z = Math.min(z, CAM.maxZoom), in 1/ZoomUnit
ClampZoom(z, CAM) == Min(z, CAM.maxZoom * BoxUnit)

EventZoom(ev, style, CAM) ==
  LET base == IF style = "cinematic" THEN BaseZoomCinematic(ev.type)
                                     ELSE BaseZoomDefault(ev.type)
  IN ClampZoom((base + AggressiveBoost(style, ev.type)) * BoxFactor(ev), CAM)

\* mutant: the aggressive style also cuts on prefocus events
EventCutOnPrefocus(ev, style, CAM, lastCutT) ==
  IF style = "cinematic"
    THEN /\ ev.type \in {"click", "result-focus", "press"}
         /\ (~Has(lastCutT) \/ 10 * (ev.t - Val(lastCutT)) > 21 * CAM.clusterMs)
         /\ ev.type # "establish"
    ELSE IF style = "aggressive" THEN TRUE
                                 ELSE ev.type = "click"

Actionable(type) == type \in {"click", "result-focus", "press"}

\* lastCutT is <<>> for -Infinity; MIN_CUT_GAP = CAM.clusterMs * 2.1
EventCut(ev, style, CAM, lastCutT) ==
  IF style = "cinematic"
    THEN /\ Actionable(ev.type)
         /\ (~Has(lastCutT) \/ 10 * (ev.t - Val(lastCutT)) > 21 * CAM.clusterMs)
         /\ ev.type # "establish"
    ELSE IF style = "aggressive" THEN ev.type # "prefocus"
                                 ELSE ev.type = "click"

\* mutant: the biased centre is not clamped
ClampBiasNone(v) == v

ClampBias(v) == Min(850, Max(150, v))

\* mutant: establish events are biased like every other event
EventCxBiasesEstablish(ev, style, shotIndex) ==
  IF style = "cinematic"
    THEN ClampBias(Val(ev.x) + (IF shotIndex % 2 = 0 THEN 0 - 70 ELSE 70))
    ELSE Val(ev.x)

\* framing bias, thousandths
EventCx(ev, style, shotIndex) ==
  IF style = "cinematic" /\ ev.type # "establish"
    THEN ClampBias(Val(ev.x) + (IF shotIndex % 2 = 0 THEN 0 - 70 ELSE 70))
    ELSE Val(ev.x)

EventCy(ev, style, shotIndex) ==
  IF style = "cinematic" /\ ev.type # "establish"
    THEN ClampBias(Val(ev.y) + (IF shotIndex % 3 = 0 THEN 0 - 50 ELSE 40))
    ELSE Val(ev.y)

RECURSIVE KeysFrom(_, _, _, _, _, _, _)
KeysFrom(filtered, i, style, CAM, shotIndex, lastCutT, keys) ==
  IF i > Len(filtered) THEN keys
  ELSE LET ev == filtered[i] IN
    IF ~Has(ev.x) \/ ~Has(ev.y)
      THEN KeysFrom(filtered, i + 1, style, CAM, shotIndex, lastCutT, keys)
      ELSE LET cut == EventCut(ev, style, CAM, lastCutT)
               key == [ t    |-> ev.t,
                        cx   |-> EventCx(ev, style, shotIndex) * PosScale,
                        cy   |-> EventCy(ev, style, shotIndex) * PosScale,
                        zoom |-> EventZoom(ev, style, CAM),
                        cut  |-> cut ]
           IN KeysFrom(filtered, i + 1, style, CAM, shotIndex + 1,
                       IF style = "cinematic" /\ cut THEN <<ev.t>> ELSE lastCutT,
                       Append(keys, key))

RawKeys(filtered, style, CAM) ==
  KeysFrom(filtered, 1, style, CAM, 0, <<>>, <<>>)

-----------------------------------------------------------------------------
(* buildCamKeys, step 7: keys.sort((a, b) => a.t - b.t), a stable sort *)

RECURSIVE InsertByT(_, _)
InsertByT(sorted, k) ==
  IF sorted = <<>> THEN <<k>>
  ELSE IF sorted[Len(sorted)].t <= k.t THEN Append(sorted, k)
  ELSE Append(InsertByT(SubSeq(sorted, 1, Len(sorted) - 1), k),
              sorted[Len(sorted)])

RECURSIVE SortFrom(_, _, _)
SortFrom(keys, i, sorted) ==
  IF i > Len(keys) THEN sorted
  ELSE SortFrom(keys, i + 1, InsertByT(sorted, keys[i]))

SortByT(keys) == SortFrom(keys, 1, <<>>)

-----------------------------------------------------------------------------
(* buildCamKeys: clustering, placeholder, dedupe, cut gating *)

\* prev.cx = (prev.cx + k.cx) / 2, ..., prev.cut = prev.cut || k.cut
\* mutant: the merged key takes the later t, so the window slides
MergeIntoSliding(prev, k) ==
  [ t    |-> k.t,
    cx   |-> (prev.cx + k.cx) \div 2,
    cy   |-> (prev.cy + k.cy) \div 2,
    zoom |-> Max(prev.zoom, k.zoom),
    cut  |-> prev.cut \/ k.cut ]

MergeInto(prev, k) ==
  [ t    |-> prev.t,
    cx   |-> (prev.cx + k.cx) \div 2,
    cy   |-> (prev.cy + k.cy) \div 2,
    zoom |-> Max(prev.zoom, k.zoom),
    cut  |-> prev.cut \/ k.cut ]

ReplaceLast(s, k) == [s EXCEPT ![Len(s)] = k]

RECURSIVE ClusterFrom(_, _, _, _)
ClusterFrom(keys, i, CAM, clustered) ==
  IF i > Len(keys) THEN clustered
  ELSE LET k == keys[i] IN
    IF clustered # <<>> /\ k.t - clustered[Len(clustered)].t < CAM.clusterMs
      THEN ClusterFrom(keys, i + 1, CAM,
             ReplaceLast(clustered, MergeInto(clustered[Len(clustered)], k)))
      ELSE ClusterFrom(keys, i + 1, CAM, Append(clustered, k))

\* mutant: no key is merged into its predecessor
ClusterNoMerge(keys, CAM) == keys

\* mutant: keys merge only within half the cluster window
ClusterHalfWindow(keys, CAM) ==
  ClusterFrom(keys, 1, [CAM EXCEPT !.clusterMs = @ \div 2], <<>>)

Cluster(keys, CAM) == ClusterFrom(keys, 1, CAM, <<>>)

Placeholder ==
  [ t |-> 0, cx |-> PosUnit \div 2, cy |-> PosUnit \div 2, zoom |-> ZoomUnit,
    cut |-> FALSE ]

\* mutant: the placeholder is never added
WithPlaceholderNever(clustered) == clustered

\* mutant: push instead of unshift
WithPlaceholderPushed(clustered) ==
  IF clustered # <<>> /\ clustered[1].t > 0
    THEN clustered \o <<Placeholder>>
    ELSE clustered

\* mutant: an empty key list gets the placeholder too
WithPlaceholderWhenEmpty(clustered) ==
  IF clustered = <<>> \/ clustered[1].t > 0
    THEN <<Placeholder>> \o clustered
    ELSE clustered

\* mutant: a lone key gets no placeholder (clustered.length > 1)
WithPlaceholderWhenSeveral(clustered) ==
  IF Len(clustered) > 1 /\ clustered[1].t > 0
    THEN <<Placeholder>> \o clustered
    ELSE clustered

WithPlaceholder(clustered) ==
  IF clustered # <<>> /\ clustered[1].t > 0
    THEN <<Placeholder>> \o clustered
    ELSE clustered

\* Math.hypot(dx, dy) < thr, thr in thousandths and positions in 1/PosUnit
DistLess(a, b, thr) ==
  LET dx == b.cx - a.cx
      dy == b.cy - a.cy
  IN dx * dx + dy * dy < (thr * PosScale) * (thr * PosScale)

\* Math.abs(b.zoom - a.zoom) < thr, thr in thousandths
ZoomDeltaLess(a, b, thr) == Abs(b.zoom - a.zoom) < thr * BoxUnit

NearDuplicate(prev, k, CAM) ==
  /\ DistLess(prev, k, CAM.dedupeDist)
  /\ ZoomDeltaLess(prev, k, CAM.dedupeZoomDelta)

RECURSIVE DedupeFrom(_, _, _, _, _)
DedupeFrom(clustered, i, style, CAM, out) ==
  IF i > Len(clustered) THEN out
  ELSE LET k == clustered[i] IN
    IF out # <<>> /\ style # "aggressive" /\ NearDuplicate(out[Len(out)], k, CAM)
      THEN DedupeFrom(clustered, i + 1, style, CAM,
             ReplaceLast(out, MergeInto(out[Len(out)], k)))
      ELSE DedupeFrom(clustered, i + 1, style, CAM, Append(out, k))

\* mutant: the dedupe pass is skipped in every style
DedupeSkipped(clustered, style, CAM) == clustered

Dedupe(clustered, style, CAM) == DedupeFrom(clustered, 1, style, CAM, <<>>)

ShouldCut(a, b, CAM) ==
  \/ ~DistLess(a, b, CAM.cutMoveThreshold)
  \/ ~ZoomDeltaLess(a, b, CAM.cutZoomThreshold)

\* mutant: the gating pass is skipped in every style
GateCutsSkipped(out, style, CAM) == out

\* a = out[i - 1] is read after its own cut flag was gated; gating changes
\* only cut flags, which ShouldCut does not read
GateCuts(out, style, CAM) ==
  IF style = "aggressive" THEN out
  ELSE [i \in 1..Len(out) |->
          IF i = 1 THEN out[i]
          ELSE [out[i] EXCEPT !.cut = out[i].cut /\ ShouldCut(out[i - 1], out[i], CAM)]]

Clustered(timeline, style, CAM) ==
  WithPlaceholder(Cluster(SortByT(RawKeys(FilterProgress(timeline), style, CAM)), CAM))

buildCamKeys(timeline, style, CAM) ==
  GateCuts(Dedupe(Clustered(timeline, style, CAM), style, CAM), style, CAM)

-----------------------------------------------------------------------------
(* exact arithmetic on reduced fractions <<num, den>>, den > 0 *)

RECURSIVE GCD(_, _)
GCD(a, b) == IF b = 0 THEN a ELSE GCD(b, a % b)

Frac(n, d) ==
  LET g == GCD(Abs(n), d) IN <<n \div g, d \div g>>

RInt(n) == <<n, 1>>

RMul(a, b) ==
  LET g1 == GCD(Abs(a[1]), b[2])
      g2 == GCD(Abs(b[1]), a[2])
  IN Frac((a[1] \div g1) * (b[1] \div g2), (a[2] \div g2) * (b[2] \div g1))

RAdd(a, b) ==
  LET g == GCD(a[2], b[2])
  IN Frac(a[1] * (b[2] \div g) + b[1] * (a[2] \div g), (a[2] \div g) * b[2])

RSub(a, b) == RAdd(a, <<0 - b[1], b[2]>>)

RLess(a, b) == a[1] * b[2] < b[1] * a[2]

-----------------------------------------------------------------------------
(* sampleCamera *)

\* k < .5 ? 4*k*k*k : 1 - Math.pow(-2*k + 2, 3) / 2
Ease(k) ==
  LET n == k[1]
      d == k[2]
  IN IF 2 * n < d
       THEN Frac(4 * n * n * n, d * d * d)
       ELSE RSub(RInt(1), Frac(4 * (d - n) * (d - n) * (d - n), d * d * d))

\* a + (b - a) * ease
Lerp(a, b, ease) == RAdd(a, RMul(RSub(b, a), ease))

KeyCx(k) == Frac(k.cx, PosUnit)
KeyCy(k) == Frac(k.cy, PosUnit)
KeyZoom(k) == Frac(k.zoom, ZoomUnit)

\* {...k, t: k.t}
Hold(k) ==
  [ cx |-> KeyCx(k), cy |-> KeyCy(k), zoom |-> KeyZoom(k), cut |-> k.cut,
    t |-> k.t ]

DefaultPose ==
  [ cx |-> Frac(1, 2), cy |-> Frac(1, 2), zoom |-> RInt(1), cut |-> FALSE,
    t |-> 0 ]

\* let cur = camKeys[0]; for (const k of camKeys) { if (k.t <= ms) cur = k; else break; }
RECURSIVE CurFrom(_, _, _, _)
CurFrom(camKeys, i, ms, cur) ==
  IF i > Len(camKeys) \/ camKeys[i].t > ms THEN cur
  ELSE CurFrom(camKeys, i + 1, ms, i)

\* mutant: the loop stops at the first key
CurIndexFirst(camKeys, ms) == 1

CurIndex(camKeys, ms) == CurFrom(camKeys, 1, ms, 1)

AGGRESSIVE_LEAD == 420
OVERSHOOT_MS == 140

\* mutant: the held pose keeps the current key's stored cut flag
HoldBeforeCutKeepsFlag(cur) == Hold(cur)

\* if (ms < nxt.t) return {...cur, cut: false, t: cur.t}
HoldBeforeCut(cur) == [Hold(cur) EXCEPT !.cut = FALSE]

\* zoom: nxt.zoom * (1 + 0.08 * (1 - ease)), kk = (ms - nxt.t) / 140
Overshoot(nxt, ms) ==
  LET ease == Ease(Frac(ms - nxt.t, OVERSHOOT_MS))
  IN [ cx |-> KeyCx(nxt), cy |-> KeyCy(nxt),
       zoom |-> RMul(KeyZoom(nxt),
                     RAdd(RInt(1), RMul(Frac(2, 25), RSub(RInt(1), ease)))),
       cut |-> TRUE, t |-> nxt.t ]

\* mutant: the zoom lags as in the other styles (ease * .85)
AggressiveLeadInLagged(cur, nxt, ms) ==
  LET ease == Ease(Frac(AGGRESSIVE_LEAD - (nxt.t - ms), AGGRESSIVE_LEAD))
  IN [ cx |-> Lerp(KeyCx(cur), KeyCx(nxt), ease),
       cy |-> Lerp(KeyCy(cur), KeyCy(nxt), ease),
       zoom |-> Lerp(KeyZoom(cur), KeyZoom(nxt), RMul(ease, Frac(17, 20))),
       cut |-> FALSE, t |-> cur.t ]

\* k = 1 - (nxt.t - ms) / lead; cur + (nxt - cur) * ease for cx, cy and zoom
AggressiveLeadIn(cur, nxt, ms) ==
  LET ease == Ease(Frac(AGGRESSIVE_LEAD - (nxt.t - ms), AGGRESSIVE_LEAD))
  IN [ cx |-> Lerp(KeyCx(cur), KeyCx(nxt), ease),
       cy |-> Lerp(KeyCy(cur), KeyCy(nxt), ease),
       zoom |-> Lerp(KeyZoom(cur), KeyZoom(nxt), ease),
       cut |-> FALSE, t |-> cur.t ]

SampleAggressive(camKeys, ms) ==
  LET idx == CurIndex(camKeys, ms)
      cur == camKeys[idx]
  IN IF idx + 1 > Len(camKeys) THEN Hold(cur)
     ELSE LET nxt == camKeys[idx + 1] IN
       IF nxt.cut
         THEN IF ms < nxt.t THEN HoldBeforeCut(cur)
              ELSE IF ms < nxt.t + OVERSHOOT_MS THEN Overshoot(nxt, ms)
              ELSE Hold(cur)
         ELSE IF ms >= nxt.t - AGGRESSIVE_LEAD /\ ms < nxt.t
                THEN AggressiveLeadIn(cur, nxt, ms)
                ELSE Hold(cur)

\* camKeys.find(k => k.t > ms): its index, 0 when there is none
RECURSIVE FindNext(_, _, _)
FindNext(camKeys, i, ms) ==
  IF i > Len(camKeys) THEN 0
  ELSE IF camKeys[i].t > ms THEN i
  ELSE FindNext(camKeys, i + 1, ms)

\* for (let i = camKeys.length - 1; i >= 0; i--) if (ms >= camKeys[i].t): its
\* index, 0 when there is none
RECURSIVE FindLastAtOrBefore(_, _, _)
FindLastAtOrBefore(camKeys, i, ms) ==
  IF i < 1 THEN 0
  ELSE IF ms >= camKeys[i].t THEN i
  ELSE FindLastAtOrBefore(camKeys, i - 1, ms)

InLeadWindow(next, ms, lead) == ms >= next.t - lead /\ ms < next.t

\* mutant: zoom eases at the full rate
LeadInNoLag(prev, next, ms, lead) ==
  LET ease == Ease(Frac(lead - (next.t - ms), lead))
  IN [ cx |-> Lerp(KeyCx(prev), KeyCx(next), ease),
       cy |-> Lerp(KeyCy(prev), KeyCy(next), ease),
       zoom |-> Lerp(KeyZoom(prev), KeyZoom(next), ease),
       cut |-> FALSE, t |-> prev.t ]

\* the eased lead-in toward next: zoom lags by the factor .85
LeadIn(prev, next, ms, lead) ==
  LET ease == Ease(Frac(lead - (next.t - ms), lead))
  IN [ cx |-> Lerp(KeyCx(prev), KeyCx(next), ease),
       cy |-> Lerp(KeyCy(prev), KeyCy(next), ease),
       zoom |-> RAdd(KeyZoom(prev),
                     RMul(RMul(RSub(KeyZoom(next), KeyZoom(prev)), ease), Frac(17, 20))),
       cut |-> FALSE, t |-> prev.t ]

\* k = span > 0 ? Math.min(1, (ms - a.t) / span) : 0
SpanFraction(a, b, ms) ==
  LET span == b.t - a.t
  IN IF span > 0 THEN (IF ms - a.t >= span THEN RInt(1) ELSE Frac(ms - a.t, span))
                 ELSE RInt(0)

\* mutant: centre framing before the first key
FullSpanCentreBefore(camKeys, ms) ==
  LET i == FindLastAtOrBefore(camKeys, Len(camKeys), ms)
  IN IF i = 0 THEN DefaultPose
     ELSE IF i + 1 > Len(camKeys) THEN Hold(camKeys[i])
     ELSE LET a == camKeys[i]
              b == camKeys[i + 1]
              k == SpanFraction(a, b, ms)
              ease == Ease(k)
          IN [ cx |-> Lerp(KeyCx(a), KeyCx(b), ease),
               cy |-> Lerp(KeyCy(a), KeyCy(b), ease),
               zoom |-> Lerp(KeyZoom(a), KeyZoom(b), ease),
               cut |-> b.cut /\ RLess(Frac(9, 10), k), t |-> a.t ]

\* mutant: the cut flag is reported over the whole span (cut: b.cut)
FullSpanCutAnywhere(camKeys, ms) ==
  LET i == FindLastAtOrBefore(camKeys, Len(camKeys), ms)
  IN IF i = 0 THEN Hold(camKeys[1])
     ELSE IF i + 1 > Len(camKeys) THEN Hold(camKeys[i])
     ELSE LET a == camKeys[i]
              b == camKeys[i + 1]
              k == SpanFraction(a, b, ms)
              ease == Ease(k)
          IN [ cx |-> Lerp(KeyCx(a), KeyCx(b), ease),
               cy |-> Lerp(KeyCy(a), KeyCy(b), ease),
               zoom |-> Lerp(KeyZoom(a), KeyZoom(b), ease),
               cut |-> b.cut, t |-> a.t ]

\* the second loop of the non-aggressive sampler and its fall-through
FullSpan(camKeys, ms) ==
  LET i == FindLastAtOrBefore(camKeys, Len(camKeys), ms)
  IN IF i = 0 THEN Hold(camKeys[1])
     ELSE IF i + 1 > Len(camKeys) THEN Hold(camKeys[i])
     ELSE LET a == camKeys[i]
              b == camKeys[i + 1]
              k == SpanFraction(a, b, ms)
              ease == Ease(k)
          IN [ cx |-> Lerp(KeyCx(a), KeyCx(b), ease),
               cy |-> Lerp(KeyCy(a), KeyCy(b), ease),
               zoom |-> Lerp(KeyZoom(a), KeyZoom(b), ease),
               cut |-> b.cut /\ RLess(Frac(9, 10), k), t |-> a.t ]

SampleEased(camKeys, ms, CAM) ==
  LET n == FindNext(camKeys, 1, ms)
  IN IF n # 0 /\ InLeadWindow(camKeys[n], ms, CAM.leadMs)
       THEN LeadIn(IF n - 1 >= 1 THEN camKeys[n - 1] ELSE camKeys[1],
                   camKeys[n], ms, CAM.leadMs)
       ELSE FullSpan(camKeys, ms)

\* mutant: every style but default and cinematic takes the aggressive branch
sampleCameraKnownStyles(camKeys, style, ms, CAM) ==
  IF camKeys = <<>> THEN DefaultPose
  ELSE IF style \in {"default", "cinematic"} THEN SampleEased(camKeys, ms, CAM)
  ELSE SampleAggressive(camKeys, ms)

sampleCamera(camKeys, style, ms, CAM) ==
  IF camKeys = <<>> THEN DefaultPose
  ELSE IF style = "aggressive" THEN SampleAggressive(camKeys, ms)
  ELSE SampleEased(camKeys, ms, CAM)

-----------------------------------------------------------------------------
(* The state machine: a timeline is recorded, the keys are built from it   *)
(* once, and the render loop samples the keys.                             *)

VARIABLES timeline, style, camKeys, pc, ms, sample, rec

vars == <<timeline, style, camKeys, pc, ms, sample, rec>>

\* the recorder of the compositor page before the mount effect has run:
\* recorderStartedRef = false, no MediaRecorder, no timer pending
RecorderIdle ==
  [ now |-> 0, theme |-> "sky", fallbackDuration |-> 8000, timers |-> {},
    canPlays |-> 0, endedLogged |-> FALSE, started |-> FALSE,
    state |-> "inactive", startedAt |-> <<>>, stoppedAt |-> <<>> ]

Styles == {"default", "cinematic", "aggressive"}

CAM == buildCamConfig(style)

Event(t, shape) ==
  [ t |-> t, type |-> shape.type, x |-> shape.x, y |-> shape.y,
    w |-> shape.w, h |-> shape.h ]

Shape(type, x, y, w, h) == [ type |-> type, x |-> x, y |-> y, w |-> w, h |-> h ]

Times == {0, 500, 520, 1000, 3000}

Shapes ==
  { Shape("goto", <<>>, <<>>, <<>>, <<>>),
    Shape("load-progress", <<200>>, <<200>>, <<>>, <<>>),
    Shape("click", <<800>>, <<200>>, <<5>>, <<5>>),
    Shape("establish", <<500>>, <<500>>, <<>>, <<>>),
    Shape("type-char", <<300>>, <<600>>, <<>>, <<>>) }

Events == { Event(t, shape) : t \in Times, shape \in Shapes }

Init ==
  /\ timeline = <<>>
  /\ style \in Styles
  /\ camKeys = <<>>
  /\ pc = "record"
  /\ ms = 0
  /\ sample = DefaultPose
  /\ rec = RecorderIdle

\* events.push({ t, ...ev })
PushEvent ==
  /\ pc = "record"
  /\ Len(timeline) < MaxEvents
  /\ \E ev \in Events : timeline' = Append(timeline, ev)
  /\ UNCHANGED <<style, camKeys, pc, ms, sample, rec>>

\* camKeysRef.current = buildCamKeys(timeline, camStyle, CAM)
Build ==
  /\ pc = "record"
  /\ camKeys' = buildCamKeys(timeline, style, CAM)
  /\ pc' = "built"
  /\ UNCHANGED <<timeline, style, ms, sample, rec>>

Next == PushEvent \/ Build

Spec == Init /\ [][Next]_vars

-----------------------------------------------------------------------------
(* The sampler on key arrays of any content: every array sorted by t, of   *)
(* at most MaxKeys keys, sampled again and again by the render loop.       *)

Key(t, cx, cy, zoom, cut) ==
  [ t |-> t, cx |-> cx * PosScale, cy |-> cy * PosScale, zoom |-> zoom * BoxUnit,
    cut |-> cut ]

KeyTimes == {0, 1000, 20000}

\* the centre at zoom 1, and an off-centre target at zoom 3.2
KeyPool ==
  { Key(t, p[1], p[2], p[3], c) :
      t \in KeyTimes, p \in {<<500, 500, 1000>>, <<800, 200, 3200>>},
      c \in BOOLEAN }

SortedByT(keys) ==
  \A i \in 1..Len(keys) : \A j \in 1..Len(keys) : i < j => keys[i].t <= keys[j].t

RECURSIVE KeyArraysOf(_)
KeyArraysOf(n) ==
  IF n = 0 THEN {<<>>}
  ELSE {Append(a, k) : a \in KeyArraysOf(n - 1), k \in KeyPool}

KeyArrays ==
  { a \in UNION {KeyArraysOf(n) : n \in 0..MaxKeys} : SortedByT(a) }

\* query times around every key time, before the first and after the last
MsOffsets == {0 - 1500, 0 - 1000, 0 - 500, 0 - 300, 0 - 50, 0, 50, 100, 5000}
MsValues == { t + d : t \in KeyTimes, d \in MsOffsets }

InitSample ==
  /\ timeline = <<>>
  /\ style \in Styles
  /\ camKeys \in KeyArrays
  /\ pc = "built"
  /\ ms = 0
  /\ sample = DefaultPose
  /\ rec = RecorderIdle

\* const raw = sampleCamera(camKeys, p.camStyle, rel, CAM)
SampleAt ==
  /\ pc \in {"built", "sampled"}
  /\ \E m \in MsValues :
       /\ ms' = m
       /\ sample' = sampleCamera(camKeys, style, m, CAM)
  /\ pc' = "sampled"
  /\ UNCHANGED <<timeline, style, camKeys, rec>>

NextSample == SampleAt

SpecSample == InitSample /\ [][NextSample]_vars

-----------------------------------------------------------------------------
(* The compositor page: parseParams reads the style and the timeline from  *)
(* the URL, the mount effect builds the keys, and the animation callback   *)
(* samples them once per frame at rel = t - start >= 0.                    *)

\* q.get('cam') || 'default': any string
StyleStrings == Styles \cup {"noir"}

\* load-progress gaps of 400, 450 and 850 ms
PipelineTimes == {0, 450, 850}

PipelineShapes ==
  { Shape("goto", <<>>, <<>>, <<>>, <<>>),
    Shape("load-progress", <<>>, <<>>, <<>>, <<>>),
    Shape("load-progress", <<200>>, <<200>>, <<>>, <<>>),
    Shape("click", <<800>>, <<200>>, <<>>, <<>>) }

PipelineEvents == { Event(t, shape) : t \in PipelineTimes, shape \in PipelineShapes }

RECURSIVE TimelinesOf(_)
TimelinesOf(n) ==
  IF n = 0 THEN {<<>>}
  ELSE {Append(tl, ev) : tl \in TimelinesOf(n - 1), ev \in PipelineEvents}

PipelineTimelines == UNION {TimelinesOf(n) : n \in 0..MaxEvents}

FrameMs == {300, 450, 5000}

InitPipeline ==
  /\ timeline \in PipelineTimelines
  /\ style \in StyleStrings
  /\ camKeys = <<>>
  /\ pc = "record"
  /\ ms = 0
  /\ sample = DefaultPose
  /\ rec = RecorderIdle

\* mutant: the hold before a cut clears the flag on the key itself
\* (cur.cut = false; return cur)
RenderFrameInPlace ==
  /\ pc \in {"built", "sampled"}
  /\ \E rel \in FrameMs :
       /\ ms' = rel
       /\ sample' = sampleCamera(camKeys, style, rel, CAM)
       /\ camKeys' =
            IF style = "aggressive" /\ camKeys # <<>>
              THEN LET idx == CurIndex(camKeys, rel)
                   IN IF idx < Len(camKeys) /\ camKeys[idx + 1].cut /\ rel < camKeys[idx + 1].t
                        THEN [camKeys EXCEPT ![idx].cut = FALSE]
                        ELSE camKeys
              ELSE camKeys
  /\ pc' = "sampled"
  /\ UNCHANGED <<timeline, style, rec>>

\* useAnimation: if (!ready) return; rel = t - startRef.current;
\* const raw = sampleCamera(camKeys, p.camStyle, rel, CAM)
RenderFrame ==
  /\ pc \in {"built", "sampled"}
  /\ \E rel \in FrameMs :
       /\ ms' = rel
       /\ sample' = sampleCamera(camKeys, style, rel, CAM)
  /\ pc' = "sampled"
  /\ UNCHANGED <<timeline, style, camKeys, rec>>

NextPipeline == Build \/ RenderFrame

SpecPipeline == InitPipeline /\ [][NextPipeline]_vars

-----------------------------------------------------------------------------
(* The recorder of the compositor page.  rec.now is the page clock in ms;  *)
(* a timer set with setTimeout(f, d) at time t is [kind, due = t + d] and  *)
(* runs at any clock value >= due.                                         *)

\* clock step and horizon of the page clock
TickMs == 400
MaxNow == 16000
\* 'canplay' events of the source video
MaxCanPlay == 1

MIN_RECORDING_MS == 8000
RECORDING_TAIL_MS == 1200
BACKUP_STOP_MS == 15000
START_FALLBACK_MS == 2500
TEASER_START_DELAY == 400

\* parseInt(q.get('fallbackDuration') || '8000', 10)
FallbackDurations == {2000, 12000, 20000}
Themes == {"sky", "teaser"}

Timer(kind, due) == [kind |-> kind, due |-> due]

\* mutant: the planned stop follows fallbackDuration with no minimum
RecordingDurationNoMinimum(fallbackDuration) == fallbackDuration + RECORDING_TAIL_MS

\* minDuration = Math.max(fallbackDuration, 8000); recordingDuration = minDuration + 1200
RecordingDuration(fallbackDuration) ==
  Max(fallbackDuration, MIN_RECORDING_MS) + RECORDING_TAIL_MS

\* startRecording(): returns at once when the recorder was started before;
\* otherwise rec.start() and the two stop timers
StartRecording(r) ==
  IF r.started THEN r
  ELSE [r EXCEPT !.started = TRUE, !.state = "recording", !.startedAt = <<r.now>>,
                 !.timers = r.timers \cup
                   { Timer("stop", r.now + RecordingDuration(r.fallbackDuration)),
                     Timer("backup", r.now + BACKUP_STOP_MS) }]

\* if (rec.state === 'recording') rec.stop()
StopRecording(r) ==
  IF r.state = "recording"
    THEN [r EXCEPT !.state = "inactive", !.stoppedAt = <<r.now>>]
    ELSE r

\* the mount effect has run: the 2500 ms start fallback is pending
InitRecord ==
  /\ timeline = <<>>
  /\ style = "default"
  /\ camKeys = <<>>
  /\ pc = "built"
  /\ ms = 0
  /\ sample = DefaultPose
  /\ \E fb \in FallbackDurations : \E th \in Themes :
       rec = [RecorderIdle EXCEPT !.fallbackDuration = fb, !.theme = th,
                                  !.timers = {Timer("startFallback", START_FALLBACK_MS)}]

CoreUnchanged == UNCHANGED <<timeline, style, camKeys, pc, ms, sample>>

Tick ==
  /\ rec.now < MaxNow
  /\ rec' = [rec EXCEPT !.now = rec.now + TickMs]
  /\ CoreUnchanged

\* video 'canplay': setTimeout(() => startRecording(), theme === 'teaser' ? 400 : 0)
CanPlay ==
  /\ rec.canPlays < MaxCanPlay
  /\ rec' = [rec EXCEPT
       !.canPlays = rec.canPlays + 1,
       !.timers = rec.timers \cup
         { Timer("start", rec.now + (IF rec.theme = "teaser" THEN TEASER_START_DELAY ELSE 0)) }]
  /\ CoreUnchanged

\* video 'ended': console.log only
VideoEnded ==
  /\ ~rec.endedLogged
  /\ rec' = [rec EXCEPT !.endedLogged = TRUE]
  /\ CoreUnchanged

\* a due timer runs its callback
FireTimer ==
  /\ \E tm \in rec.timers :
       /\ tm.due <= rec.now
       /\ LET r == [rec EXCEPT !.timers = rec.timers \ {tm}]
          IN rec' = CASE tm.kind = "start"         -> StartRecording(r)
                      [] tm.kind = "startFallback" -> IF ~r.started THEN StartRecording(r) ELSE r
                      [] tm.kind = "stop"          -> StopRecording(r)
                      [] tm.kind = "backup"        -> StopRecording(r)
  /\ CoreUnchanged

NextRecord == Tick \/ CanPlay \/ VideoEnded \/ FireTimer

SpecRecord == InitRecord /\ [][NextRecord]_vars

-----------------------------------------------------------------------------
(* The deferred timeline of the compositor page: when the page is opened   *)
(* with __FETCH_TIMELINE__ set, the keys built at mount come from an empty *)
(* timeline, and the reply of GET /timeline replaces them in one callback. *)

\* 900 is under the cinematic cluster window (950) and over the default one
\* (600); 2895 - 900 is exactly the cinematic cut gap, 950 * 2.1 = 1995
ServerTimes == {0, 900, 2895}

ServerShapes ==
  { Shape("click", <<800>>, <<200>>, <<>>, <<>>),
    Shape("press", <<1000>>, <<0>>, <<>>, <<>>),
    Shape("prefocus", <<300>>, <<600>>, <<>>, <<>>) }

\* two establish events 0.02 apart, the first 0.025 from the centre
ServerEvents ==
  { Event(t, shape) : t \in ServerTimes, shape \in ServerShapes }
    \cup { Event(900, Shape("establish", <<525>>, <<500>>, <<>>, <<>>)),
           Event(2895, Shape("establish", <<505>>, <<500>>, <<>>, <<>>)) }

RECURSIVE ServerTimelinesOf(_)
ServerTimelinesOf(n) ==
  IF n = 0 THEN {<<>>}
  ELSE {Append(tl, ev) : tl \in ServerTimelinesOf(n - 1), ev \in ServerEvents}

ServerTimelines == UNION {ServerTimelinesOf(n) : n \in 0..MaxEvents}

\* the page after mount, the request for /timeline in flight
InitFetch ==
  /\ timeline = <<>>
  /\ style \in Styles
  /\ camKeys = <<>>
  /\ pc = "fetching"
  /\ ms = 0
  /\ sample = DefaultPose
  /\ rec = RecorderIdle

\* .then((serverTl) => { params.current.timeline = serverTl;
\*   camKeysRef.current = buildCamKeys(serverTl, params.current.camStyle, CAMRef.current) })
TimelineFetched ==
  /\ pc = "fetching"
  /\ \E serverTl \in ServerTimelines :
       /\ timeline' = serverTl
       /\ camKeys' = buildCamKeys(serverTl, style, CAM)
  /\ pc' = "built"
  /\ UNCHANGED <<style, ms, sample, rec>>

NextFetch == TimelineFetched

SpecFetch == InitFetch /\ [][NextFetch]_vars

-----------------------------------------------------------------------------
(* Claims about buildCamKeys, checked under Spec *)

Built == pc = "built"

Positional(ev) == Has(ev.x) /\ Has(ev.y)
PositionalEvents == SelectSeq(timeline, Positional)

IsCentre(k) ==
  k.t = 0 /\ k.cx = PosUnit \div 2 /\ k.cy = PosUnit \div 2 /\ k.zoom = ZoomUnit

\* the clustered keys start with the t=0 placeholder (a derived key has zoom > 1)
HasPlaceholder ==
  LET c == Clustered(timeline, style, CAM) IN c # <<>> /\ c[1] = Placeholder

\* dedupe merges the first derived key into the placeholder
PlaceholderAbsorbs ==
  /\ HasPlaceholder
  /\ style # "aggressive"
  /\ NearDuplicate(Placeholder, Clustered(timeline, style, CAM)[2], CAM)

\* C1 as claimed: whenever the first event of the array has t > 0 (and any key
\* is returned at all), the first key is t = 0, cx = cy = 0.5, zoom = 1.
C1_FirstKeyIsCentre ==
  (Built /\ timeline # <<>> /\ timeline[1].t > 0 /\ camKeys # <<>>)
    => IsCentre(camKeys[1])

\* C1 amended: when every event that carries x and y has t > 0 and a key is
\* returned, the first key has t = 0; it is the centre placeholder (cx = cy =
\* 0.5, zoom = 1, cut = false) in aggressive style, and in the other styles
\* unless the first derived key is a near-duplicate of the placeholder, which
\* dedupe then merges into it.
C1_PlaceholderFirst ==
  (Built /\ camKeys # <<>>
     /\ \A i \in 1..Len(timeline) : Positional(timeline[i]) => timeline[i].t > 0)
    => /\ camKeys[1].t = 0
       /\ ~PlaceholderAbsorbs => camKeys[1] = Placeholder

C1_Witness ==
  /\ Built /\ style = "default" /\ timeline # <<>> /\ timeline[1].t > 0
  /\ Len(camKeys) = 2 /\ camKeys[1] = Placeholder

\* C2: for every event array, in any order and with repeated t, and every
\* style, the returned keys are ordered by non-decreasing t.
C2_SortedByT == Built => SortedByT(camKeys)

C2_Witness ==
  /\ Built /\ Len(timeline) = 3
  /\ timeline[1].t > timeline[2].t /\ timeline[2].t = timeline[3].t
  /\ Len(camKeys) = 3

DistinctT(events) ==
  \A i \in 1..Len(events) : \A j \in 1..Len(events) :
     i # j => events[i].t # events[j].t

\* C3: for events with pairwise-distinct t, the keys built from any permutation
\* equal the keys built from the same events in increasing-t order.
C3_OrderIndependent ==
  (Built /\ DistinctT(timeline))
    => camKeys = buildCamKeys(SortByT(timeline), style, CAM)

\* C4: with the config of the style, every returned key has
\* 1 <= zoom <= maxZoom, whatever the box area and the number of merges.
C4_ZoomWithinBounds ==
  Built => \A i \in 1..Len(camKeys) :
             /\ camKeys[i].zoom >= ZoomUnit
             /\ camKeys[i].zoom <= CAM.maxZoom * BoxUnit

C4_Witness ==
  /\ Built /\ Len(PositionalEvents) = 3 /\ Len(camKeys) = 2
  /\ \A i \in 1..3 : Val(PositionalEvents[i].w) * Val(PositionalEvents[i].h) < 2500
  /\ camKeys[2].zoom = CAM.maxZoom * BoxUnit

\* two positional events, the only ones, same x, y and type, less than
\* clusterMs apart
ClusterPair ==
  LET p == PositionalEvents
  IN /\ Len(p) = 2
     /\ p[1].type = p[2].type /\ p[1].x = p[2].x /\ p[1].y = p[2].y
     /\ p[1].t # p[2].t /\ Abs(p[1].t - p[2].t) < CAM.clusterMs

DerivedKeys == Len(camKeys) - (IF HasPlaceholder THEN 1 ELSE 0)

\* C5 as claimed: such a pair yields exactly one derived key, the t=0
\* placeholder not counted.
C5_ExactlyOneDerivedKey == (Built /\ ClusterPair) => DerivedKeys = 1

\* C5 amended: such a pair yields exactly one derived key beside the
\* placeholder, never two, except that in default and cinematic style dedupe
\* merges that key into the placeholder when it is a near-duplicate of it
\* (closer than dedupeDist to the centre, zoom below 1 + dedupeZoomDelta): the
\* t = 0 key is then the only key.
C5_OneKeyOrAbsorbed ==
  (Built /\ ClusterPair)
    => IF PlaceholderAbsorbs THEN Len(camKeys) = 1 /\ camKeys[1].t = 0
                             ELSE DerivedKeys = 1

C5_Witness ==
  /\ Built /\ ClusterPair /\ Len(camKeys) = 2
  /\ Abs(PositionalEvents[1].t - PositionalEvents[2].t) = 20

\* a single positional event: a click at t > 0 with a box of area in (0, 0.25)
SmallClickOnly ==
  LET p == PositionalEvents
  IN /\ Len(p) = 1 /\ p[1].type = "click" /\ p[1].t > 0
     /\ Has(p[1].w) /\ Has(p[1].h)
     /\ Val(p[1].w) * Val(p[1].h) > 0 /\ Val(p[1].w) * Val(p[1].h) < 2500

\* C6: in default style a single positional click at t > 0 with a small box
\* yields exactly two keys: the centre placeholder and a key at the click's t
\* and x, y with 1.7 < zoom <= 3.2 and cut = true.
C6_ClickScenario ==
  (Built /\ style = "default" /\ SmallClickOnly)
    => LET click == PositionalEvents[1]
       IN /\ Len(camKeys) = 2
          /\ camKeys[1] = Placeholder
          /\ camKeys[2].t = click.t
          /\ camKeys[2].cx = Val(click.x) * PosScale
          /\ camKeys[2].cy = Val(click.y) * PosScale
          /\ camKeys[2].zoom > 1700 * BoxUnit
          /\ camKeys[2].zoom <= 3200 * BoxUnit
          /\ camKeys[2].cut

C6_Witness ==
  /\ Built /\ style = "default"
  /\ timeline = << Event(0, Shape("goto", <<>>, <<>>, <<>>, <<>>)),
                   Event(1000, Shape("click", <<800>>, <<200>>, <<5>>, <<5>>)) >>
  /\ Len(camKeys) = 2 /\ camKeys[2].t = 1000

-----------------------------------------------------------------------------
(* Claims about sampleCamera, checked under SpecSample *)

Sampled == pc = "sampled"

LastKey == camKeys[Len(camKeys)]

SamePose(pose, k) ==
  pose.cx = KeyCx(k) /\ pose.cy = KeyCy(k) /\ pose.zoom = KeyZoom(k)

BeforeFirst == Sampled /\ camKeys # <<>> /\ ms < camKeys[1].t

\* C7 as claimed: before the first key's t the sampler returns centre framing,
\* cx = cy = 0.5, zoom = 1, cut = false.
C7_CentreBeforeFirstKey ==
  BeforeFirst => /\ sample.cx = Frac(1, 2) /\ sample.cy = Frac(1, 2)
                 /\ sample.zoom = RInt(1) /\ sample.cut = FALSE

\* aggressive style eases toward a second key that is not a cut and starts
\* less than 420 ms after ms
AggressiveApproach ==
  /\ style = "aggressive" /\ Len(camKeys) >= 2
  /\ ~camKeys[2].cut /\ ms >= camKeys[2].t - AGGRESSIVE_LEAD

\* C7 amended: before the first key's t the sampler returns the first key's
\* cx, cy and zoom (centre framing only when that key is the centre
\* placeholder), except in aggressive style while it eases toward a non-cut
\* second key less than 420 ms ahead; cut is the first key's flag, forced to
\* false inside the lead window (default, cinematic) or before a cut
\* (aggressive).
C7_FirstPoseBeforeFirstKey ==
  (BeforeFirst /\ ~AggressiveApproach)
    => /\ SamePose(sample, camKeys[1])
       /\ sample.cut =
            IF style = "aggressive"
              THEN camKeys[1].cut /\ ~(Len(camKeys) >= 2 /\ camKeys[2].cut)
              ELSE camKeys[1].cut /\ ms < camKeys[1].t - CAM.leadMs

C7_Witness ==
  /\ BeforeFirst /\ style = "default" /\ ms < 0
  /\ camKeys[1].t = 1000 /\ camKeys[1].cx # PosUnit \div 2
  /\ SamePose(sample, camKeys[1])

\* C8: for a non-empty key array sorted by t, every ms at or after the last
\* key's t samples exactly the last key's cx, cy and zoom, in every style.
C8_HoldLastPose ==
  (Sampled /\ camKeys # <<>> /\ ms >= LastKey.t) => SamePose(sample, LastKey)

C8_Witness ==
  /\ Sampled /\ style = "aggressive" /\ Len(camKeys) = 2
  /\ camKeys[1].cx # camKeys[2].cx /\ camKeys[2].cut
  /\ ms >= LastKey.t + 5000
  /\ SamePose(sample, LastKey)

\* the ease of the claim: 4k^3 for k < 0.5, else 1 - (-2k + 2)^3 / 2
Cube(r) == RMul(r, RMul(r, r))
ClaimEase(k) ==
  IF RLess(k, Frac(1, 2))
    THEN RMul(RInt(4), Cube(k))
    ELSE RSub(RInt(1), RMul(Frac(1, 2), Cube(RSub(RInt(2), RMul(RInt(2), k)))))

\* camKeys[i] is the first key after ms, it has a predecessor, and ms is in
\* its lead window
InLeadOf(i) ==
  /\ camKeys[i].t > ms
  /\ \A j \in 1..(i - 1) : camKeys[j].t <= ms
  /\ ms >= camKeys[i].t - CAM.leadMs

\* C9: in default and cinematic style, inside the lead window of the first key
\* after ms, position is prev + (next - prev) * ease(k) and zoom is
\* prev + (next - prev) * 0.85 * ease(k) with k = 1 - (next.t - ms) / leadMs;
\* for prev.t = 0, next.t = 1000, leadMs = 900, ms = 950 the position is at
\* least 94% of the way.
C9_LeadWindowEase ==
  \A i \in 2..Len(camKeys) :
    (Sampled /\ style # "aggressive" /\ InLeadOf(i))
      => LET prev == camKeys[i - 1]
             next == camKeys[i]
             k == RSub(RInt(1), Frac(next.t - ms, CAM.leadMs))
             e == ClaimEase(k)
         IN /\ sample.cx = RAdd(KeyCx(prev), RMul(RSub(KeyCx(next), KeyCx(prev)), e))
            /\ sample.cy = RAdd(KeyCy(prev), RMul(RSub(KeyCy(next), KeyCy(prev)), e))
            /\ sample.zoom =
                 RAdd(KeyZoom(prev),
                      RMul(RSub(KeyZoom(next), KeyZoom(prev)), RMul(Frac(85, 100), e)))
            /\ (prev.t = 0 /\ next.t = 1000 /\ CAM.leadMs = 900 /\ ms = 950)
                 => ~RLess(e, Frac(94, 100))

C9_Witness ==
  /\ Sampled /\ style = "default" /\ Len(camKeys) = 2 /\ ms = 950
  /\ camKeys[1].t = 0 /\ camKeys[2].t = 1000
  /\ camKeys[1].cx # camKeys[2].cx /\ camKeys[1].zoom # camKeys[2].zoom
  /\ sample.cx # KeyCx(camKeys[1]) /\ sample.cx # KeyCx(camKeys[2])

\* C10: in default and cinematic style the sampler reports cut = true only
\* inside a transition from a key a to the following key b whose cut flag is
\* set, at a fraction (ms - a.t) / (b.t - a.t) above 0.9.  Stated for the
\* query times of the render loop, at or after the first key.
C10_CutOnlyLateInTransition ==
  (Sampled /\ style # "aggressive" /\ camKeys # <<>> /\ ms >= camKeys[1].t
     /\ sample.cut)
    => \E i \in 1..(Len(camKeys) - 1) :
         /\ camKeys[i].t <= ms /\ ms < camKeys[i + 1].t
         /\ camKeys[i + 1].cut
         /\ 10 * (ms - camKeys[i].t) > 9 * (camKeys[i + 1].t - camKeys[i].t)

\* camKeys[i] is the current shot at ms and camKeys[i + 1] the key after it
CurrentShot(i) ==
  /\ Sampled /\ i + 1 <= Len(camKeys)
  /\ camKeys[i].t <= ms /\ ms < camKeys[i + 1].t

\* C11: in aggressive style, while the key after the current shot is flagged
\* cut, every ms in [cur.t, next.t) samples the current key's cx, cy and zoom
\* unchanged, with cut = false.
C11_HoldBeforeCut ==
  \A i \in 1..Len(camKeys) :
    (style = "aggressive" /\ CurrentShot(i) /\ camKeys[i + 1].cut)
      => SamePose(sample, camKeys[i]) /\ sample.cut = FALSE

C11_Witness ==
  /\ style = "aggressive" /\ Len(camKeys) = 2 /\ CurrentShot(1)
  /\ camKeys[1].cut /\ camKeys[2].cut /\ camKeys[1].cx # camKeys[2].cx
  /\ ms = camKeys[2].t - 50
  /\ SamePose(sample, camKeys[1]) /\ ~sample.cut

\* camKeys[i] is the last key that has started at ms
LastStarted(i) ==
  /\ Sampled /\ i <= Len(camKeys) /\ camKeys[i].t <= ms
  /\ \A j \in (i + 1)..Len(camKeys) : camKeys[j].t > ms

\* C12: in aggressive style, for ms in [K.t, K.t + 140) after a cut-flagged
\* key K that starts after the key before it, the sampler returns K's
\* position with zoom = K.zoom * (1 + 0.08 * (1 - ease((ms - K.t) / 140)))
\* and cut = true.
C12_OvershootAfterCut ==
  \A i \in 2..Len(camKeys) :
    (style = "aggressive" /\ LastStarted(i) /\ camKeys[i].cut
       /\ camKeys[i - 1].t < camKeys[i].t /\ ms < camKeys[i].t + OVERSHOOT_MS)
      => LET K == camKeys[i]
             e == ClaimEase(Frac(ms - K.t, OVERSHOOT_MS))
         IN /\ sample.cx = KeyCx(K) /\ sample.cy = KeyCy(K)
            /\ sample.zoom =
                 RMul(KeyZoom(K), RAdd(RInt(1), RMul(Frac(8, 100), RSub(RInt(1), e))))
            /\ sample.cut

\* C13: in aggressive style, while the key after the current shot is not
\* flagged cut, ms in [next.t - 420, next.t) samples cx, cy and zoom all at
\* cur + (next - cur) * ease(1 - (next.t - ms) / 420) with cut = false, and
\* ms in [cur.t, next.t - 420) samples the current key's cx, cy and zoom.
C13_AggressiveLeadIn ==
  \A i \in 1..Len(camKeys) :
    (style = "aggressive" /\ CurrentShot(i) /\ ~camKeys[i + 1].cut)
      => LET cur == camKeys[i]
             next == camKeys[i + 1]
             e == ClaimEase(RSub(RInt(1), Frac(next.t - ms, 420)))
         IN IF ms >= next.t - 420
              THEN /\ sample.cx = RAdd(KeyCx(cur), RMul(RSub(KeyCx(next), KeyCx(cur)), e))
                   /\ sample.cy = RAdd(KeyCy(cur), RMul(RSub(KeyCy(next), KeyCy(cur)), e))
                   /\ sample.zoom =
                        RAdd(KeyZoom(cur), RMul(RSub(KeyZoom(next), KeyZoom(cur)), e))
                   /\ sample.cut = FALSE
              ELSE SamePose(sample, cur)

\* both halves of the ease are sampled (ms = next.t - 300 and next.t - 50),
\* and so is the hold before the window
C13_Witness ==
  /\ style = "aggressive" /\ Len(camKeys) = 2 /\ CurrentShot(1)
  /\ ~camKeys[2].cut /\ camKeys[1].zoom # camKeys[2].zoom
  /\ ms = camKeys[2].t - 300
  /\ sample.zoom # KeyZoom(camKeys[1]) /\ sample.zoom # KeyZoom(camKeys[2])

-----------------------------------------------------------------------------
(* Claims about the three functions together, checked under SpecPipeline *)

KeysBuilt == pc \in {"built", "sampled"}

\* C14: when no event of the array carries both x and y (the empty array and
\* arrays of unknown or load-progress events included), buildCamKeys returns
\* no key in every style, and sampling the empty key array returns
\* cx = cy = 0.5, zoom = 1, cut = false at every ms.
C14_NoFramingWithoutPositions ==
  /\ (KeysBuilt /\ PositionalEvents = <<>>) => camKeys = <<>>
  /\ (Sampled /\ camKeys = <<>>)
       => /\ sample.cx = Frac(1, 2) /\ sample.cy = Frac(1, 2)
          /\ sample.zoom = RInt(1) /\ sample.cut = FALSE

C14_Witness ==
  /\ Sampled /\ Len(timeline) = 3 /\ PositionalEvents = <<>>
  /\ timeline[1].type = "goto" /\ timeline[2].type = "load-progress"
  /\ timeline[1].t > timeline[2].t
  /\ ms = 5000 /\ camKeys = <<>> /\ sample.zoom = RInt(1)

C17_UnknownStyleIsDefault ==
  (style \notin {"cinematic", "aggressive"})
    => LET D == buildCamConfig("default")
       IN /\ CAM = D
          /\ KeysBuilt => camKeys = buildCamKeys(timeline, "default", D)
          /\ Sampled => sample = sampleCamera(camKeys, "default", ms, D)

\* an unrecognized style samples inside a lead window, where the aggressive
\* branch would return another pose
C17_Witness ==
  /\ style = "noir" /\ Sampled /\ Len(camKeys) = 2
  /\ ms = 300 /\ camKeys[2].t = 850
  /\ sample.zoom # KeyZoom(camKeys[1])
  /\ sample # sampleCamera(camKeys, "aggressive", ms, CAM)

\* the most recently accepted load-progress event before tl[i] (0: none),
\* and whether the load-progress event tl[i] is accepted
RECURSIVE LastAcceptedProgress(_, _)
RECURSIVE ProgressAccepted(_, _)
LastAcceptedProgress(tl, i) ==
  IF i = 1 THEN 0
  ELSE IF tl[i - 1].type = "load-progress" /\ ProgressAccepted(tl, i - 1) THEN i - 1
  ELSE LastAcceptedProgress(tl, i - 1)

ProgressAccepted(tl, i) ==
  LET j == LastAcceptedProgress(tl, i)
  IN j = 0 \/ tl[i].t - tl[j].t >= 450

Discarded(tl, i) == tl[i].type = "load-progress" /\ ~ProgressAccepted(tl, i)

RECURSIVE KeptUpTo(_, _)
KeptUpTo(tl, n) ==
  IF n = 0 THEN <<>>
  ELSE IF Discarded(tl, n) THEN KeptUpTo(tl, n - 1)
  ELSE Append(KeptUpTo(tl, n - 1), tl[n])

\* C19: in input order, a load-progress event is discarded exactly when its
\* t is less than 450 ms after the t of the most recently accepted
\* load-progress event (with or without x, y); no other event is discarded;
\* the keys are those of the events that are kept.
C19_LoadProgressSuppression ==
  KeysBuilt
    => LET kept == KeptUpTo(timeline, Len(timeline))
       IN /\ FilterProgress(timeline) = kept
          /\ camKeys =
               GateCuts(Dedupe(WithPlaceholder(
                 Cluster(SortByT(RawKeys(kept, style, CAM)), CAM)), style, CAM),
                 style, CAM)

\* accepted at 0; accepted exactly 450 ms later, without x, y; discarded 400 ms
\* after that one
C19_Witness ==
  /\ pc = "built" /\ style = "default"
  /\ timeline = << Event(0, Shape("load-progress", <<200>>, <<200>>, <<>>, <<>>)),
                   Event(450, Shape("load-progress", <<>>, <<>>, <<>>, <<>>)),
                   Event(850, Shape("load-progress", <<200>>, <<200>>, <<>>, <<>>)) >>
  /\ Len(FilterProgress(timeline)) = 2
  /\ Len(camKeys) = 1 /\ camKeys[1].t = 0

-----------------------------------------------------------------------------
(* Temporal clustering, checked under SpecPipeline *)

\* the derived keys in time order, as clustering receives them
SortedRawKeys == SortByT(RawKeys(FilterProgress(timeline), style, CAM))

\* the accepted key that r[i] belongs to: r[i] itself unless it starts less
\* than clusterMs after the accepted key of r[i - 1]
RECURSIVE AnchorOf(_, _, _)
AnchorOf(r, i, clusterMs) ==
  IF i = 1 THEN 1
  ELSE LET a == AnchorOf(r, i - 1, clusterMs)
       IN IF r[i].t - r[a].t < clusterMs THEN a ELSE i

\* midpoints taken pairwise in time order over r[a..b], for the field f
RECURSIVE MidFold(_, _, _, _)
MidFold(r, a, b, f) ==
  IF b = a THEN r[a][f] ELSE (MidFold(r, a, b - 1, f) + r[b][f]) \div 2

ClusterOf(r, a, clusterMs) == { i \in 1..Len(r) : AnchorOf(r, i, clusterMs) = a }

ClaimMerged(r, a, clusterMs) ==
  LET members == ClusterOf(r, a, clusterMs)
      b == CHOOSE i \in members : \A j \in members : j <= i
  IN [ t    |-> r[a].t,
       cx   |-> MidFold(r, a, b, "cx"),
       cy   |-> MidFold(r, a, b, "cy"),
       zoom |-> CHOOSE z \in {r[i].zoom : i \in members} :
                  \A i \in members : r[i].zoom <= z,
       cut  |-> \E i \in members : r[i].cut ]

ClaimClustered(r, clusterMs) ==
  LET anchors == { i \in 1..Len(r) : AnchorOf(r, i, clusterMs) = i }
      nth(n) == CHOOSE a \in anchors : Cardinality({x \in anchors : x <= a}) = n
  IN [ n \in 1..Cardinality(anchors) |-> ClaimMerged(r, nth(n), clusterMs) ]

\* C20: a key that starts less than clusterMs after the previous accepted
\* key is merged into it: the accepted key keeps its own t and takes the
\* midpoint of the positions, the larger zoom and the OR of the cut flags;
\* the window is measured from the accepted key's t, and a cluster of three
\* or more keys is merged pairwise in time order.
C20_ClusterMergeRule ==
  pc = "built" => Cluster(SortedRawKeys, CAM) = ClaimClustered(SortedRawKeys, CAM.clusterMs)

\* three keys, the second inside the window of the first; the third is
\* inside the window of the second but not of the first, and is not merged
C20_Witness ==
  LET r == SortedRawKeys
      c == Cluster(r, CAM)
  IN /\ pc = "built" /\ style = "default" /\ Len(r) = 3 /\ Len(c) = 2
     /\ r[1].t < r[2].t /\ r[2].t < r[3].t
     /\ r[3].t - r[2].t < CAM.clusterMs
     /\ r[1].cx # r[2].cx /\ r[1].zoom # r[2].zoom /\ r[1].cut # r[2].cut
     /\ c[1].t = r[1].t /\ c[1].cx = (r[1].cx + r[2].cx) \div 2 /\ c[2] = r[3]
     /\ Len(camKeys) = 2

-----------------------------------------------------------------------------
(* The recorder, checked under SpecRecord *)

-----------------------------------------------------------------------------
(* Claims about buildCamKeys, checked under SpecFetch *)

FetchedEvents == SelectSeq(FilterProgress(timeline), Positional)

FetchedRawKeys == RawKeys(FilterProgress(timeline), style, CAM)

TimeOrdered(tl) ==
  \A i \in 1..Len(tl) : \A j \in 1..Len(tl) : i < j => tl[i].t <= tl[j].t

\* time of the last cut candidate among the first i events, as the claim
\* counts them; <<>> when there has been none
RECURSIVE ClaimLastCut(_, _)
ClaimCandidate(evs, i) ==
  /\ evs[i].type \in {"click", "result-focus", "press"}
  /\ \/ ClaimLastCut(evs, i - 1) = <<>>
     \/ 10 * (evs[i].t - ClaimLastCut(evs, i - 1)[1]) >= 21 * CAM.clusterMs

ClaimLastCut(evs, i) ==
  IF i = 0 THEN <<>>
  ELSE IF ClaimCandidate(evs, i) THEN <<evs[i].t>> ELSE ClaimLastCut(evs, i - 1)

\* C21: in cinematic style, going through the events in time order, an event
\* is a cut candidate exactly when it is a click, result-focus or press and
\* at least clusterMs * 2.1 ms have passed since the last cut candidate (or
\* there was none).
C21_CinematicCutPacing ==
  (Built /\ style = "cinematic" /\ TimeOrdered(timeline)) =>
    \A i \in 1..Len(FetchedEvents) :
      FetchedRawKeys[i].cut = ClaimCandidate(FetchedEvents, i)


ClampUnit(v) == IF v < 150 THEN 150 ELSE IF v > 850 THEN 850 ELSE v

\* C22 as stated: in cinematic style every positional non-establish event's
\* centre is moved by 0.07 in x (left on an even shot index, right on an odd
\* one) and by 0.05 in y, up or down, then clamped to [0.15, 0.85]; establish
\* events and the other styles keep x, y.
C22_FramingBiasSymmetric ==
  Built =>
    \A i \in 1..Len(FetchedEvents) :
      LET ev == FetchedEvents[i]
          k == FetchedRawKeys[i]
      IN IF style = "cinematic" /\ ev.type # "establish"
           THEN /\ k.cx = ClampUnit(ev.x[1] + (IF (i - 1) % 2 = 0 THEN 0 - 70 ELSE 70)) * PosScale
                /\ \/ k.cy = ClampUnit(ev.y[1] - 50) * PosScale
                   \/ k.cy = ClampUnit(ev.y[1] + 50) * PosScale
           ELSE k.cx = ev.x[1] * PosScale /\ k.cy = ev.y[1] * PosScale

\* C22, amended: the y offset is -0.05 on a shot index that is a multiple of
\* 3 and +0.04 on every other one; the rest as stated.
C22_FramingBias ==
  Built =>
    \A i \in 1..Len(FetchedEvents) :
      LET ev == FetchedEvents[i]
          k == FetchedRawKeys[i]
      IN IF style = "cinematic" /\ ev.type # "establish"
           THEN /\ k.cx = ClampUnit(ev.x[1] + (IF (i - 1) % 2 = 0 THEN 0 - 70 ELSE 70)) * PosScale
                /\ k.cy = ClampUnit(ev.y[1] + (IF (i - 1) % 3 = 0 THEN 0 - 50 ELSE 40)) * PosScale
           ELSE k.cx = ev.x[1] * PosScale /\ k.cy = ev.y[1] * PosScale

\* a cinematic timeline of an establish event, a press in the corner (both
\* offsets clamped) and a prefocus (shot index 2: left 0.07, down 0.04)
C22_Witness ==
  /\ Built /\ style = "cinematic" /\ Len(timeline) = 3
  /\ timeline[1].type = "establish" /\ FetchedRawKeys[1].cx = 525 * PosScale
  /\ timeline[2].type = "press"
  /\ FetchedRawKeys[2].cx = 850 * PosScale /\ FetchedRawKeys[2].cy = 150 * PosScale
  /\ timeline[3].type = "prefocus"
  /\ FetchedRawKeys[3].cx = 230 * PosScale /\ FetchedRawKeys[3].cy = 640 * PosScale


\* the events merged into output key i: the positional events from the
\* key's time up to the next output key's time
MergedInto(i) ==
  { j \in 1..Len(FetchedEvents) :
      /\ camKeys[i].t <= FetchedEvents[j].t
      /\ (i < Len(camKeys) => FetchedEvents[j].t < camKeys[i + 1].t) }

\* C23: in default style a key is a cut only if a click was merged into it;
\* in aggressive style a key is a cut exactly when an event of a type other
\* than prefocus was merged into it, and the t=0 placeholder is never a cut.
C23_CutRuleByStyle ==
  Built =>
    /\ style = "default" =>
         \A i \in 1..Len(camKeys) :
           camKeys[i].cut => \E j \in MergedInto(i) : FetchedEvents[j].type = "click"
    /\ style = "aggressive" =>
         /\ \A i \in 1..Len(camKeys) :
              camKeys[i].cut <=> \E j \in MergedInto(i) : FetchedEvents[j].type # "prefocus"
         /\ (camKeys # <<>> /\ \A j \in 1..Len(FetchedEvents) : FetchedEvents[j].t > 0)
              => ~camKeys[1].cut

\* aggressive: the placeholder, a key merged from a prefocus and a click at
\* t=900 (a cut), and a key from a lone prefocus (no cut)
C23_Witness ==
  /\ Built /\ style = "aggressive" /\ Len(timeline) = 3 /\ Len(camKeys) = 3
  /\ timeline[1].type = "prefocus" /\ timeline[1].t = 900
  /\ timeline[2].type = "click" /\ timeline[2].t = 900
  /\ timeline[3].type = "prefocus" /\ timeline[3].t = 2895
  /\ ~camKeys[1].cut /\ camKeys[2].cut /\ ~camKeys[3].cut


\* squared distance of two keys' centres, in 1/PosUnit squared
ClaimDist2(a, b) == (b.cx - a.cx) * (b.cx - a.cx) + (b.cy - a.cy) * (b.cy - a.cy)

\* closer than dedupeDist in position and closer than dedupeZoomDelta in zoom
ClaimNearDuplicate(a, b) ==
  /\ ClaimDist2(a, b) < (CAM.dedupeDist * PosScale) * (CAM.dedupeDist * PosScale)
  /\ (IF b.zoom >= a.zoom THEN b.zoom - a.zoom ELSE a.zoom - b.zoom)
       < CAM.dedupeZoomDelta * BoxUnit

\* C24 as stated: in default and cinematic output no key is a near-duplicate
\* of its predecessor in the final sequence.
C24_NoNearDuplicates ==
  (Built /\ style # "aggressive") =>
    \A i \in 2..Len(camKeys) : ~ClaimNearDuplicate(camKeys[i - 1], camKeys[i])

\* the key of the clustered sequence (placeholder included) that the dedupe
\* scan appended as output key i
AsAppended(i) ==
  LET c == Clustered(timeline, style, CAM)
  IN c[CHOOSE j \in 1..Len(c) : c[j].t = camKeys[i].t]

\* C24, amended: no key, as it stood when the dedupe scan appended it, is a
\* near-duplicate of its predecessor in the final sequence.
C24_NoNearDuplicateAppended ==
  (Built /\ style # "aggressive") =>
    \A i \in 2..Len(camKeys) : ~ClaimNearDuplicate(camKeys[i - 1], AsAppended(i))

\* default style: the key at t=900 was appended 0.025 from the placeholder
\* and a later key pulled it to 0.015 from it
C24_Witness ==
  /\ Built /\ style = "default" /\ Len(camKeys) = 2 /\ Len(timeline) = 2
  /\ timeline[1].t = 900 /\ timeline[2].t = 2895
  /\ AsAppended(2).cx = 525 * PosScale /\ camKeys[2].cx = 515 * PosScale
  /\ ClaimNearDuplicate(camKeys[1], camKeys[2])
  /\ ~ClaimNearDuplicate(camKeys[1], AsAppended(2))


\* the sequence the gating pass starts from
BeforeGating == Dedupe(Clustered(timeline, style, CAM), style, CAM)

\* C25: in default and cinematic output every key after the first with
\* cut = true is at least cutMoveThreshold away in position or at least
\* cutZoomThreshold away in zoom from its predecessor, and no key has a cut
\* flag that was false before the gating pass.
C25_CutGating ==
  (Built /\ style # "aggressive") =>
    /\ \A i \in 2..Len(camKeys) :
         camKeys[i].cut =>
           \/ ClaimDist2(camKeys[i - 1], camKeys[i])
                >= (CAM.cutMoveThreshold * PosScale) * (CAM.cutMoveThreshold * PosScale)
           \/ (IF camKeys[i].zoom >= camKeys[i - 1].zoom
                 THEN camKeys[i].zoom - camKeys[i - 1].zoom
                 ELSE camKeys[i - 1].zoom - camKeys[i].zoom)
                >= CAM.cutZoomThreshold * BoxUnit
    /\ Len(camKeys) = Len(BeforeGating)
    /\ \A i \in 1..Len(camKeys) : camKeys[i].cut => BeforeGating[i].cut

\* cinematic: two clicks merged at t=0 and a third click at t=2895, a cut
\* candidate before gating, 0.075 from the merged key (under 0.09) at the
\* same zoom, so gating cleared its flag
C25_Witness ==
  /\ Built /\ style = "cinematic" /\ Len(camKeys) = 2
  /\ camKeys[1].cut /\ camKeys[2].t = 2895
  /\ BeforeGating[2].cut /\ ~camKeys[2].cut
  /\ camKeys[1].zoom = camKeys[2].zoom
  /\ ClaimDist2(camKeys[1], camKeys[2]) = (75 * PosScale) * (75 * PosScale)



\* C27: for events with non-negative t and any style, a non-empty result
\* starts with a key at t = 0, so no query time ms >= 0 is before the first
\* key.
C27_FirstKeyAtZero ==
  (Built /\ camKeys # <<>> /\ \A i \in 1..Len(timeline) : timeline[i].t >= 0) =>
    camKeys[1].t = 0

\* a lone press at t=2895: the result is the placeholder and the press key
C27_Witness ==
  /\ Built /\ Len(timeline) = 1 /\ timeline[1].type = "press" /\ timeline[1].t = 2895
  /\ Len(camKeys) = 2 /\ camKeys[1].t = 0 /\ camKeys[2].t = 2895

\* C28: in every style two adjacent output keys are at least clusterMs apart
\* in t, except the placeholder and the key after it; so key times strictly
\* increase.
C28_KeySpacing ==
  Built =>
    /\ \A i \in 2..Len(camKeys) :
         \/ camKeys[i].t - camKeys[i - 1].t >= CAM.clusterMs
         \/ /\ i = 2
            /\ \A j \in 1..Len(FetchedEvents) : FetchedEvents[j].t > 0
    /\ \A i \in 2..Len(camKeys) : camKeys[i - 1].t < camKeys[i].t

\* default style, events at 900, 0 and 900 again: keys at 0 and 900, the
\* second one merged from two events
C28_Witness ==
  /\ Built /\ style = "default" /\ Len(timeline) = 3
  /\ timeline[1].t = 900 /\ timeline[2].t = 0 /\ timeline[3].t = 900
  /\ timeline[1].type = "click" /\ timeline[2].type = "press" /\ timeline[3].type = "prefocus"
  /\ Len(camKeys) = 2 /\ camKeys[1].t = 0 /\ camKeys[2].t = 900

\* C30: in cinematic style, when no event is an establish event and every
\* x, y lies in [0, 1], every returned key has cx and cy in [0.15, 0.85].
C30_CinematicCentresClamped ==
  (Built /\ style = "cinematic"
     /\ \A i \in 1..Len(timeline) :
          /\ timeline[i].type # "establish"
          /\ Positional(timeline[i]) =>
               /\ 0 <= timeline[i].x[1] /\ timeline[i].x[1] <= 1000
               /\ 0 <= timeline[i].y[1] /\ timeline[i].y[1] <= 1000) =>
    \A i \in 1..Len(camKeys) :
      /\ 150 * PosScale <= camKeys[i].cx /\ camKeys[i].cx <= 850 * PosScale
      /\ 150 * PosScale <= camKeys[i].cy /\ camKeys[i].cy <= 850 * PosScale

\* a press in the corner (1, 0) and a click, merged into one key at t=900
\* behind the placeholder: the press alone would sit at (1.07, -0.05)
C30_Witness ==
  /\ Built /\ style = "cinematic" /\ Len(timeline) = 2
  /\ timeline[1].type = "press" /\ timeline[1].t = 900
  /\ timeline[2].type = "click" /\ timeline[2].t = 900
  /\ Len(camKeys) = 2 /\ camKeys[1] = Placeholder
  /\ camKeys[2].cx = 850 * PosScale /\ camKeys[2].cy = 195 * PosScale

-----------------------------------------------------------------------------
(* Claims about the eased sampler, checked under SpecSample *)

\* v2 is not further back than v1 on the way from a to b
\* n1/d1 < n2/d2 for n >= 0, d > 0, by whole parts and then the
\* reciprocals of the remainders, so that no product is formed
RECURSIVE LessBy(_, _, _, _)
LessBy(n1, d1, n2, d2) ==
  IF n1 \div d1 # n2 \div d2 THEN n1 \div d1 < n2 \div d2
  ELSE IF n2 % d2 = 0 THEN FALSE
  ELSE IF n1 % d1 = 0 THEN TRUE
  ELSE LessBy(d2, n2 % d2, d1, n1 % d1)

Before(v1, v2) == LessBy(v1[1], v1[2], v2[1], v2[2])

NotBehind(a, b, v1, v2) ==
  /\ Before(a, b) => ~Before(v2, v1)
  /\ Before(b, a) => ~Before(v1, v2)

\* C26: in default and cinematic styles, for two frames at ms <= ms' between
\* adjacent keys a and b (a.t <= ms, ms' < b.t), the later frame is at least
\* as far along the way from a's position to b's position as the earlier.
C26_MonotoneProgress ==
  [][ (Sampled /\ Sampled' /\ style # "aggressive" /\ ms <= ms') =>
        \A i \in 1..(Len(camKeys) - 1) :
          (camKeys[i].t <= ms /\ ms' < camKeys[i + 1].t) =>
            /\ NotBehind(KeyCx(camKeys[i]), KeyCx(camKeys[i + 1]), sample.cx, sample'.cx)
            /\ NotBehind(KeyCy(camKeys[i]), KeyCy(camKeys[i + 1]), sample.cy, sample'.cy) ]_vars


\* C29: in default and cinematic styles, between two adjacent keys a and b
\* no more than ten lead windows apart, every frame at a.t <= ms < b.t has
\* cut = false, whatever b's cut flag.
C29_NoCutWithinShortSpan ==
  (Sampled /\ style # "aggressive") =>
    \A i \in 1..(Len(camKeys) - 1) :
      (/\ camKeys[i + 1].t - camKeys[i].t <= 10 * CAM.leadMs
       /\ camKeys[i].t <= ms /\ ms < camKeys[i + 1].t)
        => ~sample.cut

\* default style, a cut key 1000 ms after the first key, sampled at ms = 50,
\* before the lead window (which starts at 100): the full-span branch
C29_Witness ==
  /\ Sampled /\ style = "default" /\ Len(camKeys) = 2
  /\ camKeys[1].t = 0 /\ camKeys[2].t = 1000 /\ camKeys[2].cut
  /\ camKeys[1].cx # camKeys[2].cx
  /\ ms = 50 /\ ~sample.cut /\ sample.cx # KeyCx(camKeys[1])

=============================================================================
